---- MODULE Spec2Model ----
(***************************************************************************)
(* A model of CodeField (src/src/CodeField.py): a Flet control that        *)
(* re-implements text editing on top of a read-only markdown primitive.    *)
(*                                                                         *)
(* Strings are sequences of one-character strings, so that slicing,        *)
(* find/rfind, replace, split, len and upper/lower are computed the way    *)
(* Python computes them.  Key labels ("Backspace", "Arrow Left", ...) are  *)
(* such sequences too.                                                     *)
(***************************************************************************)
EXTENDS Integers, Sequences, FiniteSets, TLC

\* ------------------------------------------------------------------ bounds

\* The longest text the model lets an event produce.
MaxLen == 3

\* ----------------------------------------------------- Python str primitives

Min(a, b) == IF a < b THEN a ELSE b

Max(a, b) == IF a > b THEN a ELSE b

\* s[:n], with Python's treatment of a negative or too large n
SliceTo(s, n) ==
    LET hi == IF n < 0 THEN Max(0, Len(s) + n) ELSE Min(n, Len(s))
    IN  SubSeq(s, 1, hi)

\* s[n:], with Python's treatment of a negative or too large n
SliceFrom(s, n) ==
    LET lo == IF n < 0 THEN Max(0, Len(s) + n) ELSE Min(n, Len(s))
    IN  SubSeq(s, lo + 1, Len(s))

\* s.find(c) for a one-character c: the 0-based index of the first c, or -1
find(s, c) ==
    IF \E i \in 1..Len(s) : s[i] = c
    THEN (CHOOSE i \in 1..Len(s) : s[i] = c /\ \A j \in 1..(i - 1) : s[j] # c) - 1
    ELSE -1

\* s.rfind(c) for a one-character c: the 0-based index of the last c, or -1
rfind(s, c) ==
    IF \E i \in 1..Len(s) : s[i] = c
    THEN (CHOOSE i \in 1..Len(s) : s[i] = c /\ \A j \in (i + 1)..Len(s) : s[j] # c) - 1
    ELSE -1

\* s.startswith(prefix)
startswith(s, prefix) ==
    /\ Len(s) >= Len(prefix)
    /\ SubSeq(s, 1, Len(prefix)) = prefix

\* s.replace(old, new) for a non-empty old: every non-overlapping occurrence,
\* scanning from the left
RECURSIVE replace(_, _, _)
replace(s, old, new) ==
    IF s = <<>> THEN <<>>
    ELSE IF startswith(s, old)
         THEN new \o replace(SubSeq(s, Len(old) + 1, Len(s)), old, new)
         ELSE <<Head(s)>> \o replace(Tail(s), old, new)

\* s.split(sep) for a one-character sep: always at least one part
RECURSIVE split(_, _)
split(s, sep) ==
    LET i == find(s, sep)
    IN  IF i = -1 THEN <<s>>
        ELSE <<SubSeq(s, 1, i)>> \o split(SubSeq(s, i + 2, Len(s)), sep)

LowerLetters ==
    <<"a","b","c","d","e","f","g","h","i","j","k","l","m",
      "n","o","p","q","r","s","t","u","v","w","x","y","z">>

UpperLetters ==
    <<"A","B","C","D","E","F","G","H","I","J","K","L","M",
      "N","O","P","Q","R","S","T","U","V","W","X","Y","Z">>

\* c.upper() for one character
upper_char(c) ==
    IF \E k \in 1..26 : LowerLetters[k] = c
    THEN UpperLetters[CHOOSE k \in 1..26 : LowerLetters[k] = c]
    ELSE c

\* c.lower() for one character
lower_char(c) ==
    IF \E k \in 1..26 : UpperLetters[k] = c
    THEN LowerLetters[CHOOSE k \in 1..26 : UpperLetters[k] = c]
    ELSE c

\* s.upper(): letters are upper-cased, everything else is kept
RECURSIVE upper(_)
upper(s) == IF s = <<>> THEN <<>> ELSE <<upper_char(Head(s))>> \o upper(Tail(s))

\* s.lower(): letters are lower-cased, everything else is kept
RECURSIVE lower(_)
lower(s) == IF s = <<>> THEN <<>> ELSE <<lower_char(Head(s))>> \o lower(Tail(s))

\* c * n for a one-character c
RECURSIVE repeat(_, _)
repeat(c, n) == IF n <= 0 THEN <<>> ELSE <<c>> \o repeat(c, n - 1)

\* --------------------------------------------------------------- characters

\* Three characters a TLA+ string literal cannot hold are written by name:
\* the backtick (U+0060), the pound sign (U+00A3) and the not sign (U+00AC).
Backtick == "backtick"

PoundSign == "pound-sign"

NotSign == "not-sign"

\* -------------------------------------------------------------- key labels

KeyBackspace  == <<"B","a","c","k","s","p","a","c","e">>
KeyEscape     == <<"E","s","c","a","p","e">>
KeyCapsLock   == <<"C","a","p","s"," ","L","o","c","k">>
KeyArrowLeft  == <<"A","r","r","o","w"," ","L","e","f","t">>
KeyArrowRight == <<"A","r","r","o","w"," ","R","i","g","h","t">>
KeyArrowUp    == <<"A","r","r","o","w"," ","U","p">>
KeyArrowDown  == <<"A","r","r","o","w"," ","D","o","w","n">>
KeyTab        == <<"T","a","b">>
KeyEnter      == <<"E","n","t","e","r">>
KeyV          == <<"V">>
KeySpace      == <<" ">>
KeyF5         == <<"F","5">>
KeyNumpad     == <<"N","u","m","p","a","d">>
KeyNumpadSp   == <<"N","u","m","p","a","d"," ">>
KeyDecimal    == <<"D","e","c","i","m","a","l">>
KeyAdd        == <<"A","d","d">>
KeySubtract   == <<"S","u","b","t","r","a","c","t">>
KeyDivide     == <<"D","i","v","i","d","e">>
KeyMultiply   == <<"M","u","l","t","i","p","l","y">>
KeyNumLock    == <<"N","u","m"," ","L","o","c","k">>

\* ------------------------------------------------------------ configuration

\* The default shift mapping of the constructor (the UK layout), as a function
\* from key label to label.
DefaultShiftMapping ==
    (<<"1">> :> <<"!">>) @@ (<<"2">> :> <<"\"">>) @@ (<<"3">> :> <<PoundSign>>) @@
    (<<"4">> :> <<"$">>) @@ (<<"5">> :> <<"%">>) @@ (<<"6">> :> <<"^">>) @@
    (<<"7">> :> <<"&">>) @@ (<<"8">> :> <<"*">>) @@ (<<"9">> :> <<"(">>) @@
    (<<"0">> :> <<")">>) @@ (<<"-">> :> <<"_">>) @@ (<<"=">> :> <<"+">>) @@
    (<<"[">> :> <<"{">>) @@ (<<"]">> :> <<"}">>) @@ (<<";">> :> <<":">>) @@
    (<<"'">> :> <<"@">>) @@ (<<"#">> :> <<"~">>) @@ (<<",">> :> <<"<">>) @@
    (<<".">> :> <<">">>) @@ (<<"/">> :> <<"?">>) @@ (<<Backtick>> :> <<NotSign>>) @@
    (<<"\\">> :> <<"|">>)

\* A caller-supplied mapping (custom_shift_mapping overrides the default
\* entirely).
CustomShiftMapping ==
    (<<"1">> :> <<"a">>) @@ (<<"a">> :> <<"F","5">>) @@ (<<"F","5">> :> <<"x">>)

\* The language identifier (the constructor's default is "python").
language == <<"p","y">>

\* show_language_text, as constructed by default.
show_language_text == TRUE

\* The constructor arguments of the control under Spec: the defaults, with a
\* tab of two spaces.
DefaultConfig ==
    [show_line_numbers |-> TRUE, allow_pasting |-> TRUE,
     show_focus_border |-> TRUE, tab_spacing |-> 2,
     custom_shift_mapping |-> DefaultShiftMapping]

\* The constructor's text argument.
InitTexts == { <<>>, <<Backtick>>, <<"v">> }

\* What page.get_clipboard() may return.
Clipboards == { <<>>, <<Backtick>>, <<" ", "v">> }

\* The key labels the page delivers under Spec.  Letters reach the text by
\* pasting; the letter keys are the subject of SpecParse.
Keys ==
    { KeyBackspace, KeyEscape, KeyCapsLock, KeyArrowLeft, KeyArrowRight,
      KeyArrowUp, KeyArrowDown, KeyTab, KeyEnter, KeySpace, KeyF5 }

\* A keyboard event: flet.KeyboardEvent's key, ctrl and shift, and what the
\* clipboard holds when the handler reads it (read on Ctrl+V only).
KeyboardEvents ==
    { [key |-> k, ctrl |-> c, shift |-> s, clip |-> <<>>] :
        k \in Keys, c \in BOOLEAN, s \in BOOLEAN }
    \cup
    { [key |-> KeyV, ctrl |-> TRUE, shift |-> s, clip |-> cb] :
        s \in BOOLEAN, cb \in Clipboards }

\* -------------------------------------------------------------------- state

VARIABLES
    text,                    \* self.text
    type_point,              \* self.type_point
    is_caps,                 \* self.is_caps
    focused,                 \* self.focused
    show_line_numbers,       \* self.show_line_numbers
    allow_pasting,           \* self.allow_pasting
    show_focus_border,       \* self.show_focus_border
    tab_spacing,             \* self.tab_spacing
    custom_shift_mapping,    \* self.custom_shift_mapping
    code_markdown_value,     \* self.code_markdown.value (<<>>: never set)
    language_text_value,     \* self.language_text.value (<<>>: never set)
    line_numbers_controls,   \* the values of self.line_numbers.controls
    border,                  \* self.code_markdown_container.border is not None
    mounted,                 \* between did_mount and will_unmount
    handler_attr,            \* self.on_keyboard_input: "method" or "None"
    page_on_keyboard_event,  \* page.on_keyboard_event: "unset", "method", "None"
    on_change_count,         \* on_change calls made by the last handler
    on_focus_count,          \* on_focus calls made by the last handler
    on_focus_last,           \* <<b>>: the argument of the last on_focus call
    last_op,                 \* the handler (and dispatcher branch) that ran last
    parse_in,                \* the (letter, isShift) given to _parse_letter
    parse_out,               \* what _parse_letter returned for parse_in
    caps_lock_handled,       \* Caps Lock events handled while focused, modulo 2
    saved,                   \* <<text, type_point>> as they were before a call
    other                    \* a second CodeField on the same page

vars ==
    << text, type_point, is_caps, focused, show_line_numbers, allow_pasting,
       show_focus_border, tab_spacing, custom_shift_mapping,
       code_markdown_value, language_text_value, line_numbers_controls, border,
       mounted, handler_attr, page_on_keyboard_event, on_change_count,
       on_focus_count, on_focus_last, last_op, parse_in, parse_out,
       caps_lock_handled, saved, other >>

config_vars ==
    << show_line_numbers, allow_pasting, show_focus_border, tab_spacing,
       custom_shift_mapping >>

\* The fields of the control a handler reads and writes, with the
\* notification counters starting at zero for this handler.
Self ==
    [ text |-> text, type_point |-> type_point, is_caps |-> is_caps,
      focused |-> focused, code_markdown_value |-> code_markdown_value,
      language_text_value |-> language_text_value,
      line_numbers_controls |-> line_numbers_controls, border |-> border,
      on_change_count |-> 0, on_focus_count |-> 0,
      on_focus_last |-> on_focus_last, op |-> "none" ]

\* The handler's result becomes the control's state.
Commit(self) ==
    /\ text' = self.text
    /\ type_point' = self.type_point
    /\ is_caps' = self.is_caps
    /\ focused' = self.focused
    /\ code_markdown_value' = self.code_markdown_value
    /\ language_text_value' = self.language_text_value
    /\ line_numbers_controls' = self.line_numbers_controls
    /\ border' = self.border
    /\ on_change_count' = self.on_change_count
    /\ on_focus_count' = self.on_focus_count
    /\ on_focus_last' = self.on_focus_last
    /\ last_op' = self.op

\* ------------------------------------------------------- render synchronizer

\* _code: the text with its backticks escaped, inside a fence with the language
_code(t) ==
    LET filtered == replace(t, <<Backtick>>, <<"\\", Backtick>>)
    IN  <<Backtick, Backtick, Backtick>> \o language \o <<"\n">> \o filtered
            \o <<"\n", Backtick, Backtick, Backtick>>

\* range(a, b): a, a + 1, ..., b - 1
RECURSIVE range(_, _)
range(a, b) == IF a >= b THEN <<>> ELSE <<a>> \o range(a + 1, b)

\* line_number_values with one label too many: range(1, lineCount + 1)
line_number_values_one_more(t) ==
    LET lineCount == Len(split(t, "\n")) + 1
    IN  range(1, lineCount + 1)

\* The values of the line-number controls _update_controls builds for a text.
line_number_values(t) ==
    LET lineCount == Len(split(t, "\n")) + 1
    IN  range(1, lineCount)

\* _update_controls: the markdown value, the language text and the line numbers
\* are set from the current text; a region not shown is left as it is.
_update_controls(self) ==
    [self EXCEPT
        !.code_markdown_value = _code(IF self.text # <<>> THEN self.text ELSE <<" ">>),
        !.language_text_value = IF show_language_text THEN upper(language) ELSE @,
        !.line_numbers_controls =
            IF show_line_numbers THEN line_number_values(self.text) ELSE @]

\* ------------------------------------------------------------ key translator

\* _parse_letter that forgets caps lock when it picks the case
_parse_letter_no_caps(self, key, isShift) ==
    LET l1 == IF key = KeyEnter THEN <<"\n">> ELSE key
        l2 == IF isShift /\ l1 \in DOMAIN custom_shift_mapping
              THEN custom_shift_mapping[l1] ELSE l1
        l3 == IF startswith(l2, KeyNumpad) THEN replace(l2, KeyNumpadSp, <<>>) ELSE l2
    IN  IF l3 = KeyDecimal THEN <<".">>
        ELSE IF l3 = KeyAdd THEN <<"+">>
        ELSE IF l3 = KeySubtract THEN <<"-">>
        ELSE IF l3 = KeyDivide THEN <<"/">>
        ELSE IF l3 = KeyMultiply THEN <<"*">>
        ELSE IF l3 = KeyNumLock THEN <<>>
        ELSE IF Len(l3) > 1 THEN <<>>
        ELSE IF isShift THEN upper(l3) ELSE lower(l3)

\* _parse_letter: the character a key label stands for, or the empty string
_parse_letter(self, key, isShift) ==
    LET l1 == IF key = KeyEnter THEN <<"\n">> ELSE key
        l2 == IF isShift /\ l1 \in DOMAIN custom_shift_mapping
              THEN custom_shift_mapping[l1] ELSE l1
        l3 == IF startswith(l2, KeyNumpad) THEN replace(l2, KeyNumpadSp, <<>>) ELSE l2
    IN  IF l3 = KeyDecimal THEN <<".">>
        ELSE IF l3 = KeyAdd THEN <<"+">>
        ELSE IF l3 = KeySubtract THEN <<"-">>
        ELSE IF l3 = KeyDivide THEN <<"/">>
        ELSE IF l3 = KeyMultiply THEN <<"*">>
        ELSE IF l3 = KeyNumLock THEN <<>>
        ELSE IF Len(l3) > 1 THEN <<>>
        ELSE IF self.is_caps \/ isShift THEN upper(l3) ELSE lower(l3)

\* ------------------------------------------------------ text buffer and cursor

\* set_focus: the flag, the on_focus notification, the focus border
set_focus(self, focus) ==
    [self EXCEPT
        !.focused = focus,
        !.on_focus_count = @ + 1,
        !.on_focus_last = <<focus>>,
        !.border = focus /\ show_focus_border]

\* set_type_point without the clamp
set_type_point_unclamped(self, to) ==
    [self EXCEPT !.type_point = to]

\* set_type_point: the cursor, clamped into [0, len(text)]
set_type_point(self, to) ==
    [self EXCEPT !.type_point = Max(0, Min(Len(self.text), to))]

\* on_change is called: one more notification from this handler
on_change(self) ==
    [self EXCEPT !.on_change_count = @ + 1]

\* insert_letter that leaves the cursor where it was
insert_letter_no_advance(self, letter) ==
    IF letter = <<>> THEN self
    ELSE IF Len(letter) > 1 THEN self
    ELSE LET s1 == [self EXCEPT !.text =
                        SliceTo(self.text, self.type_point) \o letter
                            \o SliceFrom(self.text, self.type_point)]
         IN  on_change(_update_controls(s1))

\* insert_letter: nothing for an empty or a longer string; else the letter is
\* spliced in at the cursor, the cursor advances, the controls are updated and
\* on_change fires.
insert_letter(self, letter) ==
    IF letter = <<>> THEN self
    ELSE IF Len(letter) > 1 THEN self
    ELSE LET s1 == [self EXCEPT !.text =
                        SliceTo(self.text, self.type_point) \o letter
                            \o SliceFrom(self.text, self.type_point)]
             s2 == set_type_point(s1, s1.type_point + 1)
         IN  on_change(_update_controls(s2))

\* insert_word: insert_letter for each letter of the word, in order
RECURSIVE insert_word(_, _)
insert_word(self, word) ==
    IF word = <<>> THEN self
    ELSE insert_word(insert_letter(self, <<Head(word)>>), Tail(word))

\* remove_letter that removes the character at the cursor, not the one before
remove_letter_forward(self) ==
    LET s1 == [self EXCEPT !.text =
                   SliceTo(self.text, self.type_point)
                       \o SliceFrom(self.text, self.type_point + 1)]
        s2 == set_type_point(s1, s1.type_point - 1)
    IN  on_change(_update_controls(s2))

\* remove_letter that does not update the controls
remove_letter_stale(self) ==
    LET s1 == [self EXCEPT !.text =
                   SliceTo(self.text, self.type_point - 1)
                       \o SliceFrom(self.text, self.type_point)]
        s2 == set_type_point(s1, s1.type_point - 1)
    IN  on_change(s2)

\* remove_letter: text[:type_point - 1] + text[type_point:], the cursor one
\* back, the controls updated, on_change fired
remove_letter(self) ==
    LET s1 == [self EXCEPT !.text =
                   SliceTo(self.text, self.type_point - 1)
                       \o SliceFrom(self.text, self.type_point)]
        s2 == set_type_point(s1, s1.type_point - 1)
    IN  on_change(_update_controls(s2))

get_text_up_to_point(self) == SliceTo(self.text, self.type_point)

get_text_after_point(self) == SliceFrom(self.text, self.type_point)

\* --------------------------------------------------------- input dispatcher

\* for _ in range(i, stop, -1): self.remove_letter()
RECURSIVE remove_letters(_, _, _)
remove_letters(self, i, stop) ==
    IF i > stop THEN remove_letters(remove_letter(self), i - 1, stop) ELSE self

\* Backspace with ctrl that stops after the space: range(type_point, space + 1, -1)
backspace_word_keep_space(self) ==
    LET locationOfSpace == rfind(get_text_up_to_point(self), " ")
    IN  remove_letters(self, self.type_point,
                       IF locationOfSpace # -1 THEN locationOfSpace + 1 ELSE 0)

\* Backspace with ctrl: remove_letter once for each index from the cursor down
\* to, and not including, the index of the last space before the cursor (0
\* when there is none)
backspace_word(self) ==
    LET locationOfSpace == rfind(get_text_up_to_point(self), " ")
    IN  remove_letters(self, self.type_point,
                       IF locationOfSpace # -1 THEN locationOfSpace ELSE 0)

\* Arrow Left whose word jump lands after the space
arrow_left_after_space(self, ctrl) ==
    IF ctrl
    THEN LET textBeforePoint == get_text_up_to_point(self)
             spaceLocation == rfind(textBeforePoint, " ")
         IN  set_type_point(self, IF spaceLocation # -1 THEN spaceLocation + 1 ELSE 0)
    ELSE set_type_point(self, self.type_point - 1)

\* Arrow Left
arrow_left(self, ctrl) ==
    IF ctrl
    THEN LET textBeforePoint == get_text_up_to_point(self)
             spaceLocation == rfind(textBeforePoint, " ")
         IN  set_type_point(self, IF spaceLocation # -1 THEN spaceLocation ELSE 0)
    ELSE set_type_point(self, self.type_point - 1)

\* Arrow Right
arrow_right(self, ctrl) ==
    IF ctrl
    THEN LET charactersBeforePoint == Len(get_text_up_to_point(self))
             textAfterPoint == get_text_after_point(self)
             spaceLocation == find(textAfterPoint, " ")
         IN  set_type_point(self,
                 charactersBeforePoint
                     + (IF spaceLocation # -1
                        THEN self.type_point + spaceLocation
                        ELSE Len(textAfterPoint)))
    ELSE set_type_point(self, self.type_point + 1)

\* Arrow Up
arrow_up(self) ==
    LET locationOfNewline == rfind(get_text_up_to_point(self), "\n")
    IN  set_type_point(self,
            IF locationOfNewline # -1 THEN locationOfNewline ELSE self.type_point)

\* Arrow Down
arrow_down(self) ==
    LET charactersBeforePoint == Len(get_text_up_to_point(self))
        locationOfNewline == find(get_text_after_point(self), "\n")
    IN  set_type_point(self,
            charactersBeforePoint
                + (IF locationOfNewline # -1
                   THEN self.type_point + locationOfNewline
                   ELSE Len(get_text_after_point(self))))

\* The handler's branch is noted in op.
did(self, op) == [self EXCEPT !.op = op]

\* on_keyboard_input past the focus test: the first matching branch runs and
\* returns, except Tab's, which falls through to the branches after it.
dispatch(self, event) ==
    LET letter == event.key
    IN  IF letter = KeyBackspace
        THEN IF ~event.ctrl
             THEN did(remove_letter(self), "backspace")
             ELSE did(backspace_word(self), "backspace_word")
        ELSE IF letter = KeyEscape THEN did(set_focus(self, FALSE), "escape")
        ELSE IF letter = KeyCapsLock
        THEN did([self EXCEPT !.is_caps = ~self.is_caps], "caps_lock")
        ELSE IF letter = KeyArrowLeft
        THEN did(arrow_left(self, event.ctrl),
                 IF event.ctrl THEN "word_left" ELSE "left")
        ELSE LET s1 == IF letter = KeyTab
                       THEN did(insert_word(self, repeat(" ", tab_spacing)), "tab")
                       ELSE self
             IN  IF letter = KeyArrowRight
                 THEN did(arrow_right(s1, event.ctrl),
                          IF event.ctrl THEN "word_right" ELSE "right")
                 ELSE IF letter = KeyArrowUp THEN did(arrow_up(s1), "up")
                 ELSE IF letter = KeyArrowDown THEN did(arrow_down(s1), "down")
                 ELSE IF event.ctrl /\ letter = KeyV
                 THEN did(insert_word(s1, event.clip), "paste")
                 ELSE LET parsed == _parse_letter(s1, letter, event.shift)
                      IN  IF parsed = <<>>
                          THEN IF letter = KeyTab THEN s1 ELSE did(s1, "no_letter")
                          ELSE did(insert_letter(s1, parsed),
                                   IF letter = KeyTab THEN "tab_letter" ELSE "letter")

\* on_keyboard_input that flips is_caps on Caps Lock before the focus test
on_keyboard_input_caps_first(self, event) ==
    IF ~self.focused
    THEN IF event.key = KeyCapsLock
         THEN did([self EXCEPT !.is_caps = ~self.is_caps], "ignored")
         ELSE did(self, "ignored")
    ELSE dispatch(self, event)

\* on_keyboard_input without the focus test
on_keyboard_input_unguarded(self, event) == dispatch(self, event)

\* on_keyboard_input: nothing unless focused
on_keyboard_input(self, event) ==
    IF ~self.focused THEN did(self, "ignored") ELSE dispatch(self, event)

\* ------------------------------------------------------------------- actions

\* __init__ with the given text and settings
Construct(t, c) ==
    /\ text = t
    /\ type_point = Len(text)
    /\ is_caps = FALSE
    /\ focused = FALSE
    /\ show_line_numbers = c.show_line_numbers
    /\ allow_pasting = c.allow_pasting
    /\ show_focus_border = c.show_focus_border
    /\ tab_spacing = c.tab_spacing
    /\ custom_shift_mapping = c.custom_shift_mapping
    /\ code_markdown_value = <<>>
    /\ language_text_value = <<>>
    /\ line_numbers_controls = <<>>
    /\ border = FALSE
    /\ mounted = FALSE
    /\ handler_attr = "method"
    /\ page_on_keyboard_event = "unset"
    /\ on_change_count = 0
    /\ on_focus_count = 0
    /\ on_focus_last = <<>>
    /\ last_op = "init"

\* The fields of a second CodeField as __init__ leaves them, as a record.
Instance(t) ==
    [ text |-> t, type_point |-> Len(t), is_caps |-> FALSE, focused |-> FALSE,
      code_markdown_value |-> <<>>, language_text_value |-> <<>>,
      line_numbers_controls |-> <<>>, border |-> FALSE,
      on_change_count |-> 0, on_focus_count |-> 0, on_focus_last |-> <<>>,
      op |-> "init", mounted |-> FALSE, handler_attr |-> "method",
      constructed |-> TRUE ]

\* No second CodeField has been constructed.
NoInstance == [Instance(<<>>) EXCEPT !.constructed = FALSE]

\* One control on the page, no Caps Lock handled yet, nothing saved.
Alone ==
    /\ caps_lock_handled = 0
    /\ saved = <<>>
    /\ other = NoInstance

\* _parse_letter is not being called on its own.
NoParse ==
    /\ parse_in = [letter |-> <<>>, shift |-> FALSE, done |-> TRUE]
    /\ parse_out = <<>>

Init ==
    /\ \E t \in InitTexts : Construct(t, DefaultConfig)
    /\ NoParse
    /\ Alone

\* did_mount: the controls are updated and the page's keyboard handler becomes
\* whatever self.on_keyboard_input is now.
did_mount ==
    /\ ~mounted
    /\ \E after \in {did(_update_controls(Self), "did_mount")} : Commit(after)
    /\ page_on_keyboard_event' = handler_attr
    /\ mounted' = TRUE
    /\ UNCHANGED << config_vars, handler_attr, parse_in, parse_out,
                    caps_lock_handled, saved, other >>

\* will_unmount: focused is cleared directly and the instance attribute
\* on_keyboard_input is set to None.
will_unmount ==
    /\ mounted
    /\ \E after \in {did([Self EXCEPT !.focused = FALSE], "will_unmount")} : Commit(after)
    /\ handler_attr' = "None"
    /\ mounted' = FALSE
    /\ UNCHANGED << config_vars, page_on_keyboard_event, parse_in, parse_out,
                    caps_lock_handled, saved, other >>

\* on_container_click: the focus is toggled.
on_container_click ==
    /\ mounted
    /\ \E after \in {did(set_focus(Self, ~focused), "click")} : Commit(after)
    /\ UNCHANGED << config_vars, mounted, handler_attr, page_on_keyboard_event,
                    parse_in, parse_out, caps_lock_handled, saved, other >>

\* The page delivers a keyboard event to the handler it holds.
page_keyboard_event(event) ==
    /\ page_on_keyboard_event = "method"
    /\ \E after \in {on_keyboard_input(Self, event)} :
          /\ Len(after.text) <= MaxLen
          /\ Commit(after)
    /\ caps_lock_handled' =
          IF focused /\ event.key = KeyCapsLock
          THEN 1 - caps_lock_handled ELSE caps_lock_handled
    /\ UNCHANGED << config_vars, mounted, handler_attr, page_on_keyboard_event,
                    parse_in, parse_out, saved, other >>

keyboard_event == \E event \in KeyboardEvents : page_keyboard_event(event)

Next ==
    \/ did_mount
    \/ will_unmount
    \/ on_container_click
    \/ keyboard_event

Spec == Init /\ [][Next]_vars

\* ------------------------------------------- the key translator on its own

KeyShift == <<"S","h","i","f","t">>

\* The key labels given to _parse_letter under SpecParse.
ParseKeys ==
    { KeyEnter, KeyTab, KeyF5, KeyShift, KeySpace, KeyNumLock, KeyDecimal,
      <<"1">>, <<"5">>, <<"a">>, <<"A">>, <<"z">>, <<"-">>, <<"/">>, <<Backtick>>,
      KeyNumpadSp \o <<"5">>, KeyNumpadSp \o KeyDecimal, KeyNumpadSp \o KeyAdd,
      KeyNumpadSp \o KeySubtract, KeyNumpadSp \o KeyDivide,
      KeyNumpadSp \o KeyMultiply }

\* The shift mappings a control is constructed with under SpecParse.
ParseMappings == { DefaultShiftMapping, CustomShiftMapping }

InitParse ==
    /\ \E m \in ParseMappings :
          Construct(<<>>, [DefaultConfig EXCEPT !.custom_shift_mapping = m])
    /\ parse_in \in [letter : ParseKeys, shift : BOOLEAN, done : {FALSE}]
    /\ parse_out = <<>>
    /\ Alone

\* The Caps Lock branch of on_keyboard_input: is_caps flips.
toggle_caps ==
    /\ ~parse_in.done
    /\ is_caps' = ~is_caps
    /\ UNCHANGED << text, type_point, focused, config_vars, code_markdown_value,
                    language_text_value, line_numbers_controls, border, mounted,
                    handler_attr, page_on_keyboard_event, on_change_count,
                    on_focus_count, on_focus_last, last_op, parse_in, parse_out,
                    caps_lock_handled, saved, other >>

\* letter = self._parse_letter(letter, event.shift)
call_parse_letter ==
    /\ ~parse_in.done
    /\ parse_out' = _parse_letter(Self, parse_in.letter, parse_in.shift)
    /\ parse_in' = [parse_in EXCEPT !.done = TRUE]
    /\ UNCHANGED << text, type_point, is_caps, focused, config_vars,
                    code_markdown_value, language_text_value,
                    line_numbers_controls, border, mounted, handler_attr,
                    page_on_keyboard_event, on_change_count, on_focus_count,
                    on_focus_last, last_op, caps_lock_handled, saved, other >>

NextParse ==
    \/ toggle_caps
    \/ call_parse_letter

SpecParse == InitParse /\ [][NextParse]_vars

\* ------------------------------------------- other constructor arguments

\* A caller-supplied mapping with an entry for the Tab key.
TabShiftMapping == (KeyTab :> <<">">>) @@ (<<"1">> :> <<"!">>)

\* The constructor arguments under SpecSettings: pasting allowed or not, a tab
\* of one or two spaces, the default shift mapping or one that maps Tab.
Settings ==
    { [DefaultConfig EXCEPT !.allow_pasting = a, !.tab_spacing = n,
                            !.custom_shift_mapping = m] :
        a \in BOOLEAN, n \in {1, 2}, m \in {DefaultShiftMapping, TabShiftMapping} }

\* The key labels the page delivers under SpecSettings.
SettingsKeys == { KeyTab, KeyArrowLeft, KeyBackspace }

\* The clipboard texts under SpecSettings.
SettingsClipboards == { <<>>, <<"v">> }

SettingsEvents ==
    { [key |-> k, ctrl |-> c, shift |-> s, clip |-> <<>>] :
        k \in SettingsKeys, c \in BOOLEAN, s \in BOOLEAN }
    \cup
    { [key |-> KeyV, ctrl |-> TRUE, shift |-> s, clip |-> cb] :
        s \in BOOLEAN, cb \in SettingsClipboards }

InitSettings ==
    /\ \E t \in InitTexts, c \in Settings : Construct(t, c)
    /\ NoParse
    /\ Alone

keyboard_event_settings == \E event \in SettingsEvents : page_keyboard_event(event)

NextSettings ==
    \/ did_mount
    \/ will_unmount
    \/ on_container_click
    \/ keyboard_event_settings

SpecSettings == InitSettings /\ [][NextSettings]_vars

\* ------------------------------------------------------- typing letters

\* The key labels the page delivers under SpecCaps: two letter keys, Caps
\* Lock, and keys that move the focus and the cursor and shorten the text.
CapsKeys ==
    { <<"A">>, <<"b">>, KeyCapsLock, KeyEscape, KeyArrowLeft, KeyBackspace }

CapsEvents ==
    { [key |-> k, ctrl |-> c, shift |-> s, clip |-> <<>>] :
        k \in CapsKeys, c \in BOOLEAN, s \in BOOLEAN }

InitCaps ==
    /\ Construct(<<>>, DefaultConfig)
    /\ NoParse
    /\ Alone

keyboard_event_caps == \E event \in CapsEvents : page_keyboard_event(event)

NextCaps ==
    \/ did_mount
    \/ will_unmount
    \/ on_container_click
    \/ keyboard_event_caps

SpecCaps == InitCaps /\ [][NextCaps]_vars

\* ------------------------------------- insert_letter, then remove_letter

\* The characters of the texts and letters under SpecInverse.
InverseAlphabet == { "v", " ", "\n" }

\* The constructor's text argument under SpecInverse: every text over the
\* alphabet that leaves room for one more character.
InverseTexts == UNION { [1..n -> InverseAlphabet] : n \in 0..(MaxLen - 1) }

InitInverse ==
    /\ \E t \in InverseTexts : Construct(t, DefaultConfig)
    /\ NoParse
    /\ Alone

\* The owner calls set_type_point(to).
call_set_type_point(to) ==
    /\ mounted
    /\ \E after \in {did(set_type_point(Self, to), "set_type_point")} : Commit(after)
    /\ saved' = <<>>
    /\ UNCHANGED << config_vars, mounted, handler_attr, page_on_keyboard_event,
                    parse_in, parse_out, caps_lock_handled, other >>

\* The owner calls insert_letter(letter); the text and the cursor it found are
\* saved.
call_insert_letter(letter) ==
    /\ mounted
    /\ Len(text) < MaxLen
    /\ \E after \in {did(insert_letter(Self, letter), "insert_letter")} : Commit(after)
    /\ saved' = <<text, type_point>>
    /\ UNCHANGED << config_vars, mounted, handler_attr, page_on_keyboard_event,
                    parse_in, parse_out, caps_lock_handled, other >>

\* The owner calls remove_letter() right after insert_letter.
call_remove_letter ==
    /\ mounted
    /\ last_op = "insert_letter"
    /\ \E after \in {did(remove_letter(Self), "remove_letter")} : Commit(after)
    /\ UNCHANGED << config_vars, mounted, handler_attr, page_on_keyboard_event,
                    parse_in, parse_out, caps_lock_handled, saved, other >>

move_type_point == \E to \in 0..MaxLen : call_set_type_point(to)

insert_one_letter == \E c \in InverseAlphabet : call_insert_letter(<<c>>)

NextInverse ==
    \/ did_mount
    \/ move_type_point
    \/ insert_one_letter
    \/ call_remove_letter

SpecInverse == InitInverse /\ [][NextInverse]_vars

\* ------------------------------------------- two controls on one page

\* The variables that hold the fields of the first control.
instance_vars ==
    << text, type_point, is_caps, focused, code_markdown_value,
       language_text_value, line_numbers_controls, border, mounted,
       handler_attr, on_change_count, on_focus_count, on_focus_last, last_op >>

\* The fields of the second control, with the notification counters starting
\* at zero for a handler of it.
OtherSelf ==
    [other EXCEPT !.on_change_count = 0, !.on_focus_count = 0, !.op = "none"]

\* The key labels the page delivers under SpecTwo.
TwoKeys == { <<"A">>, KeyBackspace, KeyEscape }

TwoEvents ==
    { [key |-> k, ctrl |-> c, shift |-> s, clip |-> <<>>] :
        k \in TwoKeys, c \in BOOLEAN, s \in BOOLEAN }

\* Two controls are constructed, neither is on the page yet.
InitTwo ==
    /\ Construct(<<>>, DefaultConfig)
    /\ NoParse
    /\ caps_lock_handled = 0
    /\ saved = <<>>
    /\ other = Instance(<<>>)

\* did_mount of the second control: its controls are updated and the page's
\* keyboard handler becomes its on_keyboard_input.
did_mount_other ==
    /\ other.constructed
    /\ ~other.mounted
    /\ other' = [did(_update_controls(OtherSelf), "did_mount") EXCEPT !.mounted = TRUE]
    /\ page_on_keyboard_event' =
          IF other.handler_attr = "method" THEN "other_method" ELSE "None"
    /\ UNCHANGED << instance_vars, config_vars, parse_in, parse_out,
                    caps_lock_handled, saved >>

\* on_container_click of the second control
on_container_click_other ==
    /\ other.mounted
    /\ other' = did(set_focus(OtherSelf, ~other.focused), "click")
    /\ UNCHANGED << instance_vars, config_vars, page_on_keyboard_event, parse_in,
                    parse_out, caps_lock_handled, saved >>

\* The page delivers a keyboard event to the handler it holds, the second
\* control's.
page_keyboard_event_other(event) ==
    /\ page_on_keyboard_event = "other_method"
    /\ \E after \in {on_keyboard_input(OtherSelf, event)} :
          /\ Len(after.text) <= MaxLen
          /\ other' = after
    /\ UNCHANGED << instance_vars, config_vars, page_on_keyboard_event, parse_in,
                    parse_out, caps_lock_handled, saved >>

keyboard_event_two == \E event \in TwoEvents : page_keyboard_event(event)

keyboard_event_other == \E event \in TwoEvents : page_keyboard_event_other(event)

NextTwo ==
    \/ did_mount
    \/ did_mount_other
    \/ on_container_click
    \/ on_container_click_other
    \/ keyboard_event_two
    \/ keyboard_event_other

SpecTwo == InitTwo /\ [][NextTwo]_vars

\* =================================================================== claims

\* The branches of on_keyboard_input, as noted in last_op.
KeyOps ==
    { "ignored", "backspace", "backspace_word", "escape", "caps_lock", "left",
      "word_left", "tab", "tab_letter", "right", "word_right", "up", "down",
      "paste", "no_letter", "letter" }

\* did_mount has run at least once.
Rendered == page_on_keyboard_event # "unset"

\* The 0-based index of the last c in s (s holds one).
LastIndex(s, c) ==
    (CHOOSE i \in 1..Len(s) : s[i] = c /\ \A j \in (i + 1)..Len(s) : s[j] # c) - 1

\* The 0-based index of the first c in s (s holds one).
FirstIndex(s, c) ==
    (CHOOSE i \in 1..Len(s) : s[i] = c /\ \A j \in 1..(i - 1) : s[j] # c) - 1

Holds(s, c) == \E i \in 1..Len(s) : s[i] = c

\* The text before and after the cursor.
Before == SubSeq(text, 1, type_point)

After == SubSeq(text, type_point + 1, Len(text))

\* C1: in every reachable state the cursor is within the text:
\* 0 <= type_point <= len(text).
C1_CursorInRange ==
    /\ type_point >= 0
    /\ type_point <= Len(text)

\* C1 witness: a Backspace has run and left an empty buffer with the cursor at 0,
\* an extreme of the range.
C1_Witness ==
    /\ last_op = "backspace"
    /\ on_change_count = 1
    /\ text = <<>>
    /\ type_point = 0

\* C2: a plain Backspace with the cursor at 0 leaves the text and the cursor as
\* they were.
C2_BackspaceAtStartIsNoOp ==
    [][ (focused /\ type_point = 0 /\ last_op' = "backspace")
            => (text' = text /\ type_point' = type_point) ]_vars

\* C3: a keyboard event handled while the control is not focused changes
\* neither text, type_point, is_caps nor focused and fires neither on_change
\* nor on_focus.
C3_UnfocusedIgnoresKeys ==
    [][ (~focused /\ last_op' \in KeyOps)
            => /\ text' = text
               /\ type_point' = type_point
               /\ is_caps' = is_caps
               /\ focused' = focused
               /\ on_change_count' = 0
               /\ on_focus_count' = 0 ]_vars

\* C3 witness: a keyboard event was ignored by an unfocused control that holds
\* text and has caps lock on.
C3_Witness ==
    /\ last_op = "ignored"
    /\ ~focused
    /\ is_caps
    /\ text # <<>>

\* The text with each backtick preceded by a backslash.
RECURSIVE EscapeBackticks(_)
EscapeBackticks(t) ==
    IF t = <<>> THEN <<>>
    ELSE (IF Head(t) = Backtick THEN <<"\\", Backtick>> ELSE <<Head(t)>>)
            \o EscapeBackticks(Tail(t))

\* The fence around a body: three backticks and the language, the body on a
\* line of its own, three backticks.
Fence(body) ==
    <<Backtick, Backtick, Backtick>> \o language \o <<"\n">> \o body
        \o <<"\n", Backtick, Backtick, Backtick>>

\* C4: once did_mount has run, the markdown value is the fence around the
\* current text with its backticks escaped (a single space when the text is
\* empty), and the line-number controls, when shown, are those of the current
\* text.
C4_DisplayFollowsText ==
    Rendered =>
        /\ code_markdown_value =
               Fence(IF text = <<>> THEN <<" ">> ELSE EscapeBackticks(text))
        /\ show_line_numbers => line_numbers_controls = line_number_values(text)

\* C4 witness: a deletion has just run on a mounted control and the text it left
\* holds a backtick.
C4_Witness ==
    /\ Rendered
    /\ last_op \in {"backspace", "backspace_word"}
    /\ on_change_count > 0
    /\ Holds(text, Backtick)

\* C5, as claimed: Ctrl+Backspace removes the characters after the last space
\* before the cursor and keeps that space, the cursor ending just after it;
\* with no space before the cursor everything before it goes and the cursor is
\* 0.  The text after the cursor is kept.
C5_WordDeleteKeepsSpace ==
    [][ (focused /\ last_op' = "backspace_word")
            => IF Holds(Before, " ")
               THEN /\ text' = SubSeq(text, 1, LastIndex(Before, " ") + 1) \o After
                    /\ type_point' = LastIndex(Before, " ") + 1
               ELSE /\ text' = After
                    /\ type_point' = 0 ]_vars

\* C5, amended: Ctrl+Backspace removes the last space before the cursor and
\* everything between it and the cursor, the cursor ending at the index that
\* space had; with no space before the cursor everything before it goes and the
\* cursor is 0.  The text after the cursor is kept.
C5_WordDeleteTakesSpace ==
    [][ (focused /\ last_op' = "backspace_word")
            => IF Holds(Before, " ")
               THEN /\ text' = SubSeq(text, 1, LastIndex(Before, " ")) \o After
                    /\ type_point' = LastIndex(Before, " ")
               ELSE /\ text' = After
                    /\ type_point' = 0 ]_vars

\* C5 witness: a Ctrl+Backspace has removed two characters, a space and the
\* character after it, and left "v" with the cursor at 1, where the space was.
C5_Witness ==
    /\ last_op = "backspace_word"
    /\ on_change_count = 2
    /\ text = <<"v">>
    /\ type_point = 1

\* C6, as claimed: Ctrl+Arrow Left puts the cursor just after the last space
\* before it, or at 0 when there is none, and keeps the text.
C6_WordLeftAfterSpace ==
    [][ (focused /\ last_op' = "word_left")
            => /\ text' = text
               /\ type_point' = IF Holds(Before, " ")
                                THEN LastIndex(Before, " ") + 1 ELSE 0 ]_vars

\* C6, amended: Ctrl+Arrow Left puts the cursor at the index of the last space
\* before it (in front of that space), or at 0 when there is none, and keeps the
\* text.
C6_WordLeftAtSpace ==
    [][ (focused /\ last_op' = "word_left")
            => /\ text' = text
               /\ type_point' = IF Holds(Before, " ")
                                THEN LastIndex(Before, " ") ELSE 0 ]_vars

\* C6 witness: a Ctrl+Arrow Left has left the cursor of "v v" at 1, the index of
\* its space.
C6_Witness ==
    /\ last_op = "word_left"
    /\ text = <<"v", " ", "v">>
    /\ type_point = 1

\* C7: Ctrl+Arrow Right puts the cursor at c + k, k the offset of the first
\* space in the text after the cursor c, or at len(text) when there is none, and
\* keeps the text.
C7_WordRightToNextSpace ==
    [][ (focused /\ last_op' = "word_right")
            => /\ text' = text
               /\ type_point' = IF Holds(After, " ")
                                THEN type_point + FirstIndex(After, " ")
                                ELSE Len(text) ]_vars

\* C8: Arrow Down puts the cursor at len(textBeforeCursor) + k, the index of the
\* first newline after the cursor, or at len(text) when there is none, and keeps
\* the text.
C8_DownToNextNewline ==
    [][ (focused /\ last_op' = "down")
            => /\ text' = text
               /\ type_point' = IF Holds(After, "\n")
                                THEN Len(Before) + FirstIndex(After, "\n")
                                ELSE Len(text) ]_vars

\* The number of newline-separated lines of a text: one more than its newlines.
NumLines(t) == 1 + Cardinality({i \in 1..Len(t) : t[i] = "\n"})

\* The labels 1..n
Labels(n) == [i \in 1..n |-> i]

\* C9, as claimed: with line numbers shown, the labels of a render are
\* 1..(lineCount + 1), one more than the text has lines.
C9_OneLabelMoreThanLines ==
    (Rendered /\ show_line_numbers)
        => line_numbers_controls = Labels(NumLines(text) + 1)

\* C9, amended: with line numbers shown, the labels of a render are 1..n for a
\* text of n newline-separated lines: one label per line, none beyond.
C9_OneLabelPerLine ==
    (Rendered /\ show_line_numbers)
        => line_numbers_controls = Labels(NumLines(text))

\* C9 witness: a text of three lines (two newlines around one character) is
\* rendered with the labels 1, 2, 3.
C9_Witness ==
    /\ Rendered
    /\ show_line_numbers
    /\ text = <<"\n", "v", "\n">>
    /\ line_numbers_controls = <<1, 2, 3>>

\* The reference rules of the key translator, in order.
RefTranslate(key, shift, caps, M) ==
    LET r1 == IF key = KeyEnter THEN <<"\n">> ELSE key
        r2 == IF shift /\ r1 \in DOMAIN M THEN M[r1] ELSE r1
        r3 == IF Len(r2) >= 7 /\ SubSeq(r2, 1, 7) = KeyNumpadSp
              THEN SubSeq(r2, 8, Len(r2)) ELSE r2
    IN  CASE r3 = KeyDecimal  -> <<".">>
          [] r3 = KeyAdd      -> <<"+">>
          [] r3 = KeySubtract -> <<"-">>
          [] r3 = KeyDivide   -> <<"/">>
          [] r3 = KeyMultiply -> <<"*">>
          [] r3 = KeyNumLock  -> <<>>
          [] OTHER -> IF Len(r3) > 1 THEN <<>>
                      ELSE IF caps \/ shift THEN upper(r3) ELSE lower(r3)

\* C10: what _parse_letter returns for a key label and a shift flag, under the
\* control's caps state and shift map, is what the reference rules give; so "1"
\* with shift gives "!" under the default map, "F5" gives "", and "a" with caps
\* and no shift gives "A".
C10_ParseLetterFollowsRules ==
    parse_in.done =>
        /\ parse_out = RefTranslate(parse_in.letter, parse_in.shift, is_caps,
                                    custom_shift_mapping)
        /\ (parse_in.letter = <<"1">> /\ parse_in.shift
              /\ custom_shift_mapping = DefaultShiftMapping) => parse_out = <<"!">>
        /\ parse_in.letter = KeyF5 /\ ~parse_in.shift => parse_out = <<>>
        /\ (parse_in.letter = <<"a">> /\ ~parse_in.shift /\ is_caps)
              => parse_out = <<"A">>

\* C10 witness: _parse_letter has returned "A" for "a" with caps lock on and no
\* shift.
C10_Witness ==
    /\ parse_in.done
    /\ parse_in.letter = <<"a">>
    /\ ~parse_in.shift
    /\ is_caps
    /\ parse_out = <<"A">>

\* A Ctrl+V event that finds cb on the clipboard.
PasteEvent(s, cb) == [key |-> KeyV, ctrl |-> TRUE, shift |-> s, clip |-> cb]

\* C11: Ctrl+V on a focused control with the clipboard text cb puts cb, whole
\* and in order, at the cursor: the text becomes the old text before the cursor,
\* cb, the old text after the cursor, and the cursor advances by len(cb); for
\* every cursor position and every cb, the empty one too.
C11_PasteInsertsBlock ==
    [][ \A s \in BOOLEAN, cb \in Clipboards :
          (focused /\ last_op' = "paste" /\ page_keyboard_event(PasteEvent(s, cb)))
              => /\ text' = Before \o cb \o After
                 /\ type_point' = type_point + Len(cb) ]_vars

\* C11 witness: a paste of " v" at cursor 0 of a text that held one backtick has
\* left " v" in front of the backtick and the cursor at 2.
C11_Witness ==
    /\ last_op = "paste"
    /\ on_change_count = 2
    /\ text = <<" ", "v", Backtick>>
    /\ type_point = 2

\* C12: on a control constructed with allow_pasting = False, a Ctrl+V event
\* handled while focused leaves the text and the cursor as they were, whatever
\* the clipboard holds.
C12_NoPasteWhenNotAllowed ==
    [][ \A s \in BOOLEAN, cb \in SettingsClipboards :
          (~allow_pasting /\ focused /\ page_keyboard_event(PasteEvent(s, cb)))
              => /\ text' = text
                 /\ type_point' = type_point ]_vars

\* C13: every change of focused, by a click, by Escape or by unmounting, fires
\* on_focus with the new value and sets the border: in every reachable state the
\* last on_focus value is focused (no on_focus yet: not focused), and the focus
\* border is shown exactly when focused and show_focus_border both hold.  A
\* control starts unfocused.
C13_FocusIsAnnouncedAndShown ==
    /\ IF on_focus_last = <<>> THEN ~focused ELSE on_focus_last[1] = focused
    /\ border = (focused /\ show_focus_border)
    /\ last_op = "init" => ~focused

\* The number of characters a step inserted into or removed from the text.
CharactersChanged ==
    IF Len(text') >= Len(text) THEN Len(text') - Len(text) ELSE Len(text) - Len(text')

\* C14: the on_change notifications fired while one keyboard event is handled
\* are as many as the characters the event inserted or removed: n for a paste
\* or a Tab of n characters, n for a Ctrl+Backspace that removes n, none for an
\* event that inserts and removes nothing (navigation, Caps Lock, Escape, an
\* unhandled key, a delete at the start of the buffer).
C14_OneChangePerCharacter ==
    [][ (last_op' \in KeyOps) => on_change_count' = CharactersChanged ]_vars

\* A Tab key event.
TabEvent(c, s) == [key |-> KeyTab, ctrl |-> c, shift |-> s, clip |-> <<>>]

\* n spaces
Spaces(n) == [i \in 1..n |-> " "]

\* C15: a Tab key event handled while focused, with any ctrl and shift flags
\* and under any shift mapping, puts exactly tab_spacing spaces at the cursor
\* and nothing else, and the cursor advances by exactly tab_spacing.
C15_TabInsertsOnlySpaces ==
    [][ \A c \in BOOLEAN, s \in BOOLEAN :
          (focused /\ page_keyboard_event(TabEvent(c, s)))
              => /\ text' = Before \o Spaces(tab_spacing) \o After
                 /\ type_point' = type_point + tab_spacing ]_vars

\* A key event with nothing on the clipboard.
KeyEvent(k, c, s) == [key |-> k, ctrl |-> c, shift |-> s, clip |-> <<>>]

\* The lower-case and the upper-case character of the two letter keys.
LetterCases ==
    (<<"A">> :> [lo |-> <<"a">>, up |-> <<"A">>]) @@
    (<<"b">> :> [lo |-> <<"b">>, up |-> <<"B">>])

\* C16: the caps state persists across key events and focus changes and is
\* flipped only by a Caps Lock event handled while focused: a letter key
\* pressed without shift on a focused control is inserted upper-case iff the
\* number of Caps Lock events handled while focused so far is odd, and
\* lower-case otherwise; a Caps Lock event changes neither text nor cursor.
C16_CapsFollowsCapsLock ==
    [][ /\ \A k \in DOMAIN LetterCases, c \in BOOLEAN :
              (focused /\ last_op' = "letter"
                  /\ page_keyboard_event(KeyEvent(k, c, FALSE)))
              => /\ text' = Before
                              \o (IF caps_lock_handled = 1
                                  THEN LetterCases[k].up ELSE LetterCases[k].lo)
                              \o After
                 /\ type_point' = type_point + 1
        /\ \A c \in BOOLEAN, s \in BOOLEAN :
              (last_op' \in {"caps_lock", "ignored"}
                  /\ page_keyboard_event(KeyEvent(KeyCapsLock, c, s)))
              => /\ text' = text
                 /\ type_point' = type_point
        /\ is_caps' # is_caps => (focused /\ last_op' = "caps_lock") ]_vars

\* C16 witness: on a focused control with an odd number of Caps Lock events
\* handled, a letter key has put "B" after a "b".
C16_Witness ==
    /\ last_op = "letter"
    /\ caps_lock_handled = 1
    /\ on_focus_count = 0
    /\ on_focus_last = <<TRUE>>
    /\ text = <<"b", "B">>
    /\ type_point = 2

\* C17: insert_letter(c) for one character c followed by remove_letter gives
\* back the text and the cursor as they were before the insertion, for every
\* text and every cursor from 0 to the end of the text.
C17_InsertThenRemoveIsInverse ==
    last_op = "remove_letter" => saved = <<text, type_point>>

\* C17 witness: a letter inserted at cursor 0 of a text of two different
\* characters has been removed again.
C17_Witness ==
    /\ last_op = "remove_letter"
    /\ saved = << <<"v", " ">>, 0 >>
    /\ text = <<"v", " ">>
    /\ type_point = 0

\* The cursor Ctrl+Arrow Left would give from the current state.
WordLeftCursor ==
    on_keyboard_input(Self, KeyEvent(KeyArrowLeft, TRUE, FALSE)).type_point

\* C18: word-delete and word-left agree on the word boundary: from the same
\* focused state with cursor c, the cursor after Ctrl+Backspace is the cursor p
\* that Ctrl+Arrow Left would give, and the text after Ctrl+Backspace is the old
\* text up to p followed by the old text from c on.
C18_WordDeleteMatchesWordLeft ==
    [][ (focused /\ last_op' = "backspace_word")
            => /\ type_point' = WordLeftCursor
               /\ text' = SubSeq(text, 1, WordLeftCursor) \o After ]_vars

\* C18 witness: a Ctrl+Backspace has removed two characters, a space and the
\* character after it, and left the space that stood before them, with the
\* cursor behind it.
C18_Witness ==
    /\ last_op = "backspace_word"
    /\ on_change_count = 2
    /\ text = <<" ">>
    /\ type_point = 1

\* C19: the keyboard subscription follows the mount lifecycle: after every
\* did_mount, a remount too, the page's keyboard handler is this control's
\* on_keyboard_input (so that a click and a key then reach the text), and a
\* control that is not mounted handles no keyboard event.
C19_HandlerFollowsMount ==
    [][ /\ mounted' => page_on_keyboard_event' = "method"
        /\ (~mounted /\ last_op' \in KeyOps) => last_op' = "ignored" ]_vars

\* The page delivers the event, to whichever handler it holds.
Delivered(event) ==
    \/ page_keyboard_event(event)
    \/ page_keyboard_event_other(event)

\* C20: with two controls mounted on one page, in either order, a keyboard
\* event delivered to the page is processed by every control that is focused
\* and by none that is not: a printable key changes the text of each focused
\* control, whichever was mounted last, and of no unfocused one.
C20_EveryFocusedControlTypes ==
    [][ \A c \in BOOLEAN, s \in BOOLEAN :
          (mounted /\ other.mounted /\ Delivered(KeyEvent(<<"A">>, c, s)))
              => /\ focused => text' # text
                 /\ other.focused => other'.text # other.text
                 /\ ~focused => text' = text
                 /\ ~other.focused => other'.text = other.text ]_vars

====
